---- MODULE Spec2Model ----
(***************************************************************************)
(* The position workflows of src/uniswapV3/uniswapV3.py (class UniswapV3)  *)
(* run against a chain: close_position, collect_fees and add_liquidity as  *)
(* sequences of RPC reads and transactions, and the read-only range check  *)
(* is_price_in_range.                                                      *)
(*                                                                         *)
(* A workflow invocation is a process.  Every RPC the code makes is a      *)
(* point where the process can be interleaved with the chain (a block is   *)
(* mined) and with the other process, and where the RPC can raise.         *)
(*                                                                         *)
(* The argument amount_usdt is given in quarter tokens.  Every other       *)
(* token quantity, the float amounts of the code and the raw integer       *)
(* amounts on chain alike, is counted in sixteenths of a token.  The       *)
(* sample prices are 1, 4 and 1/4, which get_pool_price returns exactly    *)
(* for some sqrtPriceX96 (a price of 2 or 1/2 it returns for none), so     *)
(* that amount_usdt / price_current is a whole number of sixteenths for    *)
(* every amount_usdt, as exact as the float division of the code.          *)
(*                                                                         *)
(* A logarithm to base 1.0001 is counted in thousandths of a tick, to the  *)
(* nearest one.                                                            *)
(***************************************************************************)
EXTENDS Integers, Sequences, FiniteSets, TLC

VARIABLES
    chain_nonce,   \* transactions of the wallet mined so far (eth_getTransactionCount, latest)
    position,      \* the manager's record of the position token
    balance,       \* ERC-20 balance of the wallet, per token
    allowance,     \* ERC-20 allowance wallet -> position manager, per token
    pool,          \* the WETH/USDT pool: which token is token0, and its price
    sent,          \* every transaction handed to send_raw_transaction, in order
    pc,            \* per process: the place in the code
    call,          \* per process: the operation invoked and its arguments
    liquidity,     \* per process: close_position's local `liquidity`
    nonce,         \* per process: the nonce read for the transaction being built
    tx,            \* per process: index in sent of the transaction being awaited
    al,            \* per process: add_liquidity's locals
    steps,         \* per process: what each called step caught and returned
    ret,           \* per process: how the invocation ended
    rq,            \* the range query: is_price_in_range's inputs and result
    reg,           \* the position registry: the Transfer log, the positions table and a query of them
    tk             \* a call of calculate_ticks: its arguments and what it returned

vars == <<chain_nonce, position, balance, allowance, pool, sent, pc, call,
          liquidity, nonce, tx, al, steps, ret, rq, reg, tk>>

chain == <<chain_nonce, position, balance, allowance, pool, sent>>

(***************************************************************************)
(* Bounds of the model.                                                    *)
(***************************************************************************)
MaxLiquidity == 2
MaxTick == 3

Procs == {"w1", "w2"}
Tokens == {"USDT", "WETH"}

(***************************************************************************)
(* Python values.                                                          *)
(***************************************************************************)
None == [none |-> TRUE]
NotReturned == [running |-> TRUE]

\* the receipt wait_for_transaction_receipt returns for transaction i of sent
Receipt(i) == [tx |-> i, status |-> IF sent[i].status = "mined" THEN 1 ELSE 0]

Absent == [exists |-> FALSE, liquidity |-> 0, owed |-> FALSE]

NoCall == [op |-> "none", amount_usdt |-> 0, fee |-> 0, price_range |-> [lower |-> 0, upper |-> 0]]

NoLocals ==
    [token0 |-> "none", token1 |-> "none", amount_token0 |-> 0, amount_token1 |-> 0,
     price_current |-> [num |-> 0, den |-> 1, log |-> 0],
     balance_token0 |-> 0, balance_token1 |-> 0,
     tick_lower |-> 0, tick_upper |-> 0, approving |-> 0, pool_fee |-> 0,
     allowance |-> [approve_token0 |-> -1, approve_token1 |-> -1]]

NoQuery == [pc |-> "off", tick_lower |-> 0, tick_upper |-> 0, current_tick |-> 0,
            error |-> "", result |-> NotReturned]

NoRegistry ==
    [pc |-> "off", log |-> <<>>, table |-> <<>>, current_tick |-> 0, ids_error |-> FALSE,
     ids |-> <<>>, i |-> 0, fetched |-> <<>>, positions |-> <<>>, active |-> <<>>, j |-> 0,
     checks |-> <<>>, in_range |-> <<>>, raised |-> "", returned |-> FALSE]

NoTicks ==
    [pc |-> "off", price_current |-> [num |-> 0, den |-> 1, log |-> 0],
     price_range |-> [lower |-> 0, upper |-> 0], decimals_token0 |-> 0, decimals_token1 |-> 0,
     fee |-> 0, result |-> NotReturned]

(***************************************************************************)
(* The chain: what the contracts do with a mined transaction.              *)
(***************************************************************************)
\* web3.eth.get_transaction_count(wallet): the count at the latest block, which
\* does not include a transaction that is sent and not yet mined
get_transaction_count == chain_nonce

\* whether the contract call of transaction t succeeds when it is executed
Executes(t) ==
    CASE t.kind = "decreaseLiquidity" -> position.exists /\ position.liquidity >= t.a0
      [] t.kind = "collect" -> position.exists
      [] t.kind = "burn" -> position.exists /\ position.liquidity = 0 /\ ~position.owed
      [] t.kind = "approve" -> TRUE
      [] t.kind = "mint" ->
            /\ balance[t.token0] >= t.a0 /\ balance[t.token1] >= t.a1
            /\ allowance[t.token0] >= t.a0 /\ allowance[t.token1] >= t.a1

PositionAfter(t) ==
    CASE t.kind = "decreaseLiquidity" ->
            [position EXCEPT !.liquidity = @ - t.a0, !.owed = @ \/ t.a0 > 0]
      [] t.kind = "collect" -> [position EXCEPT !.owed = FALSE]
      [] t.kind = "burn" -> Absent
      [] OTHER -> position

AllowanceAfter(t) ==
    CASE t.kind = "approve" -> [allowance EXCEPT ![t.token0] = t.a0]
      [] t.kind = "mint" ->
            [k \in Tokens |-> IF k = t.token0 THEN allowance[k] - t.a0 ELSE allowance[k] - t.a1]
      [] OTHER -> allowance

BalanceAfter(t) ==
    CASE t.kind = "mint" ->
            [k \in Tokens |-> IF k = t.token0 THEN balance[k] - t.a0 ELSE balance[k] - t.a1]
      [] OTHER -> balance

\* A block is mined with the pending transaction that carries the wallet's next
\* nonce; a pending transaction of the same nonce can no longer be mined.
Mine ==
    \E i \in 1..Len(sent) :
        /\ sent[i].status = "pending"
        /\ sent[i].nonce = chain_nonce
        /\ LET t == sent[i]
               ok == Executes(t)
           IN  /\ sent' = [j \in 1..Len(sent) |->
                            IF j = i THEN [t EXCEPT !.status = IF ok THEN "mined" ELSE "reverted"]
                            ELSE IF sent[j].status = "pending" /\ sent[j].nonce = t.nonce
                                 THEN [sent[j] EXCEPT !.status = "dropped"]
                                 ELSE sent[j]]
               /\ position' = IF ok THEN PositionAfter(t) ELSE position
               /\ allowance' = IF ok THEN AllowanceAfter(t) ELSE allowance
               /\ balance' = IF ok THEN BalanceAfter(t) ELSE balance
        /\ chain_nonce' = chain_nonce + 1
        /\ UNCHANGED <<pool, pc, call, liquidity, nonce, tx, al, steps, ret, rq, reg, tk>>

(***************************************************************************)
(* Control flow shared by the step functions.                              *)
(***************************************************************************)
Returned(p, step, exc, value) ==
    [steps EXCEPT ![p] = Append(@, [step |-> step, exc |-> exc, returned |-> value])]

\* close_position retrying a step that returned None, which the code does not do
close_position_retry(step, value) ==
    CASE step = "decrease" -> IF value = None THEN "dec_build" ELSE "col_build"
      [] step = "collect" -> IF value = None THEN "col_build" ELSE "burn_build"
      [] step = "burn" -> "done"

\* close_position, lines 224-232: what follows each step; the value a step
\* returned is not looked at, except that burn's is returned
close_position_next(step, value) ==
    CASE step = "decrease" -> "col_build"
      [] step = "collect" -> "burn_build"
      [] step = "burn" -> "done"

\* add_liquidity, lines 506-527: the two approvals, then the mint
add_liquidity_next(step, value) ==
    CASE step = "approve_token0" -> "ap_allow"
      [] step = "approve_token1" -> "mint_build"
      [] step = "mint" -> "done"

Continue(op, step, value) ==
    CASE op = "close_position" -> close_position_next(step, value)
      [] op = "collect_fees" -> "done"
      [] op = "add_liquidity" -> add_liquidity_next(step, value)

\* a step function returns `value` to its caller (after catching `exc`, "" for
\* none), add_liquidity's locals being `locals` by then
StepReturnWith(p, step, exc, value, locals) ==
    LET next == Continue(call[p].op, step, value)
    IN  /\ steps' = Returned(p, step, exc, value)
        /\ pc' = [pc EXCEPT ![p] = next]
        /\ ret' = IF next = "done"
                  THEN [ret EXCEPT ![p] = [raised |-> "", value |-> value]]
                  ELSE ret
        /\ al' = IF step = "approve_token0"
                 THEN [locals EXCEPT ![p].approving = 1]
                 ELSE locals

StepReturn(p, step, exc, value) ==
    StepReturnWith(p, step, exc, value, al)

\* an exception that no handler of the invocation catches reaches the caller
Raise(p, exc) ==
    /\ ret' = [ret EXCEPT ![p] = [raised |-> exc, value |-> None]]
    /\ pc' = [pc EXCEPT ![p] = "done"]
    /\ UNCHANGED <<steps, al>>

\* the arguments of build_transaction are evaluated: the nonce is read
BuildOk(p, next) ==
    /\ nonce' = [nonce EXCEPT ![p] = get_transaction_count]
    /\ pc' = [pc EXCEPT ![p] = next]

\* sign_transaction and send_raw_transaction: the node takes the transaction
\* into its pool unless its nonce is already used up by a mined one
Submit(p, kind, token0, token1, a0, a1, accepted) ==
    /\ accepted => nonce[p] >= chain_nonce
    /\ sent' = Append(sent, [proc |-> p, kind |-> kind, nonce |-> nonce[p],
                             token0 |-> token0, token1 |-> token1, a0 |-> a0, a1 |-> a1,
                             status |-> IF accepted THEN "pending" ELSE "rejected"])
    /\ tx' = [tx EXCEPT ![p] = Len(sent) + 1]

Mined(i) == sent[i].status \in {"mined", "reverted"}

(***************************************************************************)
(* Position reads.                                                         *)
(***************************************************************************)
\* get_position_details handing back the manager's record whatever the call did
get_position_details_default(rpc_ok) == position

\* get_position_details, lines 95-99: positions(id).call() raises on a transport
\* error and reverts for a token that does not exist; either way None is returned
get_position_details(rpc_ok) ==
    IF rpc_ok /\ position.exists THEN position ELSE None

\* close_position leaving the decrease out only for a negative liquidity
needs_decrease_from_zero(l) == l >= 0

\* close_position, line 223
needs_decrease(l) == l > 0

(***************************************************************************)
(* close_position, lines 209-236.                                          *)
(***************************************************************************)
close_position(p) ==
    /\ pc[p] = "cp_fetch"
    /\ \E rpc_ok \in BOOLEAN :
          LET details == get_position_details(rpc_ok)
              \* what positions(id).call() did, and what get_position_details returned
              fetch == [step |-> "get_position_details",
                        exc |-> IF rpc_ok /\ position.exists THEN "" ELSE "ContractCallError",
                        returned |-> details]
          IN  IF details = None
              THEN \* line 220 raises, line 234 catches, None is returned
                   /\ steps' = [steps EXCEPT ![p] =
                          Append(Append(@, fetch),
                              [step |-> "close_position", exc |-> "PositionNotFound",
                               returned |-> None])]
                   /\ ret' = [ret EXCEPT ![p] = [raised |-> "", value |-> None]]
                   /\ pc' = [pc EXCEPT ![p] = "done"]
                   /\ UNCHANGED liquidity
              ELSE /\ steps' = [steps EXCEPT ![p] = Append(@, fetch)]
                   /\ liquidity' = [liquidity EXCEPT ![p] = details.liquidity]
                   /\ pc' = [pc EXCEPT ![p] =
                          IF needs_decrease(details.liquidity) THEN "dec_build" ELSE "col_build"]
                   /\ UNCHANGED ret
    /\ UNCHANGED <<chain, call, nonce, tx, al, rq, reg, tk>>

(***************************************************************************)
(* _decrease_liquidity, lines 238-269.                                     *)
(***************************************************************************)
\* a decrease of one unit of liquidity whatever was read
liquidity_to_remove_unit(l) ==
    1

\* lines 224 and 248: the liquidity read at line 222 is the amount to remove
liquidity_to_remove(l) ==
    l

decrease_liquidity(p) ==
    \/ /\ pc[p] = "dec_build"
       /\ \/ BuildOk(p, "dec_send") /\ UNCHANGED <<steps, ret, al>>
          \/ StepReturn(p, "decrease", "RPCError", None) /\ UNCHANGED nonce
       /\ UNCHANGED <<chain, call, liquidity, tx, rq, reg, tk>>
    \/ /\ pc[p] = "dec_send"
       /\ \/ /\ Submit(p, "decreaseLiquidity", "none", "none",
                       liquidity_to_remove(liquidity[p]), 0, TRUE)
             /\ pc' = [pc EXCEPT ![p] = "dec_wait"]
             /\ UNCHANGED <<steps, ret, al>>
          \/ /\ Submit(p, "decreaseLiquidity", "none", "none",
                       liquidity_to_remove(liquidity[p]), 0, FALSE)
             /\ StepReturn(p, "decrease", "SendRejected", None)
       /\ UNCHANGED <<chain_nonce, position, balance, allowance, pool, call, liquidity,
                      nonce, rq, reg, tk>>
    \/ /\ pc[p] = "dec_wait"
       /\ IF Mined(tx[p])
          THEN StepReturn(p, "decrease", "", Receipt(tx[p]))
          ELSE StepReturn(p, "decrease", "TimeExhausted", None)
       /\ UNCHANGED <<chain, call, liquidity, nonce, tx, rq, reg, tk>>

(***************************************************************************)
(* collect_fees, lines 169-207.                                            *)
(***************************************************************************)
\* lines 201-207: the try block has raised `exc`.  Line 201 first looks
\* `exceptions` up on the Web3 instance.  Where the instance has the attribute,
\* line 205 catches `exc` and None is returned.  Where it has none, the lookup
\* raises AttributeError and no handler of collect_fees runs: the exception
\* reaches the caller of collect_fees, and in close_position line 234 catches
\* it, so that close_position returns None without going on to the burn.
collect_fees_failed(p, exc) ==
    \/ StepReturn(p, "collect", exc, None)
    \/ /\ IF call[p].op = "close_position"
          THEN /\ steps' = [steps EXCEPT ![p] =
                      Append(Append(@, [step |-> "collect", exc |-> exc, returned |-> None]),
                          [step |-> "close_position", exc |-> "AttributeError",
                           returned |-> None])]
               /\ ret' = [ret EXCEPT ![p] = [raised |-> "", value |-> None]]
          ELSE /\ steps' = Returned(p, "collect", exc, None)
               /\ ret' = [ret EXCEPT ![p] = [raised |-> "AttributeError", value |-> None]]
       /\ pc' = [pc EXCEPT ![p] = "done"]
       /\ UNCHANGED al

collect_fees(p) ==
    \/ /\ pc[p] = "col_build"
       /\ \/ BuildOk(p, "col_send") /\ UNCHANGED <<steps, ret, al>>
          \/ collect_fees_failed(p, "RPCError") /\ UNCHANGED nonce
       /\ UNCHANGED <<chain, call, liquidity, tx, rq, reg, tk>>
    \/ /\ pc[p] = "col_send"
       /\ \/ /\ Submit(p, "collect", "none", "none", 0, 0, TRUE)
             /\ pc' = [pc EXCEPT ![p] = "col_wait"]
             /\ UNCHANGED <<steps, ret, al>>
          \/ /\ Submit(p, "collect", "none", "none", 0, 0, FALSE)
             /\ collect_fees_failed(p, "SendRejected")
       /\ UNCHANGED <<chain_nonce, position, balance, allowance, pool, call, liquidity,
                      nonce, rq, reg, tk>>
    \/ /\ pc[p] = "col_wait"
       /\ IF Mined(tx[p])
          THEN StepReturn(p, "collect", "", Receipt(tx[p]))
          ELSE collect_fees_failed(p, "TimeExhausted")
       /\ UNCHANGED <<chain, call, liquidity, nonce, tx, rq, reg, tk>>

(***************************************************************************)
(* _burn_position, lines 271-296.                                          *)
(***************************************************************************)
burn_position(p) ==
    \/ /\ pc[p] = "burn_build"
       /\ \/ BuildOk(p, "burn_send") /\ UNCHANGED <<steps, ret, al>>
          \/ StepReturn(p, "burn", "RPCError", None) /\ UNCHANGED nonce
       /\ UNCHANGED <<chain, call, liquidity, tx, rq, reg, tk>>
    \/ /\ pc[p] = "burn_send"
       /\ \/ /\ Submit(p, "burn", "none", "none", 0, 0, TRUE)
             /\ pc' = [pc EXCEPT ![p] = "burn_wait"]
             /\ UNCHANGED <<steps, ret, al>>
          \/ /\ Submit(p, "burn", "none", "none", 0, 0, FALSE)
             /\ StepReturn(p, "burn", "SendRejected", None)
       /\ UNCHANGED <<chain_nonce, position, balance, allowance, pool, call, liquidity,
                      nonce, rq, reg, tk>>
    \/ /\ pc[p] = "burn_wait"
       /\ IF Mined(tx[p])
          THEN StepReturn(p, "burn", "", Receipt(tx[p]))
          ELSE StepReturn(p, "burn", "TimeExhausted", None)
       /\ UNCHANGED <<chain, call, liquidity, nonce, tx, rq, reg, tk>>

(***************************************************************************)
(* Tick arithmetic of src/utils/utils.py.  A positive float is carried by  *)
(* its logarithm to base 1.0001 in thousandths of a tick, so that a        *)
(* product of floats is a sum and math.log(x, 1.0001) reads the value.     *)
(***************************************************************************)
\* math.log(10, 1.0001) = 23027.0022033 ticks: its thousandths, and the
\* ten-thousandths of a thousandth left over
Log10Milli == 23027002
Log10MilliRest == 2033
LogScale == 1000

\* the fee tier in the getPool call of add_liquidity, line 461
POOL_FEE == 3000

USDT_DECIMALS == 6
WETH_DECIMALS == 18

\* Python's int() of a float: truncation toward zero
int(a, b) == IF a >= 0 THEN a \div b ELSE -((-a) \div b)

\* math.log of the factor 10 ** n of price_to_tick, line 39: the whole
\* thousandths below it, and the ten-thousandths of a thousandth it has above
\* them (0 to 9999)
decimal_log(n) ==
    [whole |-> n * Log10Milli + (n * Log10MilliRest) \div 10000,
     rest |-> (n * Log10MilliRest) % 10000]

\* price_to_tick, lines 39-44: the logarithm of the adjusted price is
\* whole + rest / 10000 thousandths, and int() cuts it toward zero after the
\* sum is made, so that a negative sum with a rest is cut up to the next tick
price_to_tick(price_log, decimal_token0, decimal_token1) ==
    LET d == decimal_log(decimal_token1 - decimal_token0)
        whole == price_log + d.whole
    IN  IF whole < 0 /\ d.rest > 0
        THEN int(whole + 1, LogScale)
        ELSE int(whole, LogScale)

\* a table that has a spacing for the fee 250 as well
fee_tier_tick_spacing_any ==
    [f \in {100, 500, 3000, 10000, 250} |->
        CASE f = 100 -> 1 [] f = 500 -> 10 [] f = 10000 -> 200 [] OTHER -> 60]

\* calculate_ticks, line 57
fee_tier_tick_spacing == [f \in {100, 500, 3000, 10000} |->
    CASE f = 100 -> 1 [] f = 500 -> 10 [] f = 3000 -> 60 [] f = 10000 -> 200]

\* an adjustment that leaves the tick as it is
align_skip(tick, tick_spacing) ==
    tick

\* an adjustment that rounds toward zero
align_toward_zero(tick, tick_spacing) ==
    int(tick, tick_spacing) * tick_spacing

\* calculate_ticks, lines 61-62: Python's // is the floor of the quotient, as
\* \div is
align(tick, tick_spacing) ==
    (tick \div tick_spacing) * tick_spacing

\* calculate_ticks, lines 51-64; the lookup of line 58 raises KeyError
calculate_ticks(price_current, price_range, decimals_token0, decimals_token1, fee) ==
    LET tick_lower == price_to_tick(price_current.log + price_range.lower,
                                    decimals_token0, decimals_token1)
        tick_upper == price_to_tick(price_current.log + price_range.upper,
                                    decimals_token0, decimals_token1)
    IN  IF fee \notin DOMAIN fee_tier_tick_spacing
        THEN [raised |-> "KeyError", tick_lower |-> 0, tick_upper |-> 0]
        ELSE LET tick_spacing == fee_tier_tick_spacing[fee]
             IN  [raised |-> "",
                  tick_lower |-> align(tick_lower, tick_spacing),
                  tick_upper |-> align(tick_upper, tick_spacing)]

(***************************************************************************)
(* verify_balance, lines 408-439.                                          *)
(***************************************************************************)
\* lines 428-439, on the two balances read at lines 422 and 423
verify_balance(amount_token0, amount_token1, balance_token0, balance_token1) ==
    /\ ~(balance_token0 < amount_token0)
    /\ ~(balance_token1 < amount_token1)

\* an approve_token that approves whatever the allowance is
allowance_ignored(token, amount) ==
    FALSE

\* approve_token, line 314
allowance_sufficient(token, amount) ==
    allowance[token] >= amount

Decimals(token) == IF token = "USDT" THEN USDT_DECIMALS ELSE WETH_DECIMALS

(***************************************************************************)
(* add_liquidity, lines 441-544.                                           *)
(***************************************************************************)
\* sixteenths of a token in a quarter token, the unit of amount_usdt
QUARTER == 4

\* lines 472 and 478, amount_usdt / price_current, in sixteenths
weth_equivalent(amount_usdt, price_current) ==
    (amount_usdt * QUARTER * price_current.den) \div price_current.num

\* lines 461-481: the pool is resolved, its price and token order read, and the
\* two amounts derived from amount_usdt
add_liquidity_price(p) ==
    /\ pc[p] = "al_price"
    /\ \/ Raise(p, "RPCError")
       \/ /\ al' = [al EXCEPT ![p] =
                IF pool.token0 = "USDT"
                THEN [@ EXCEPT !.token0 = "USDT", !.token1 = "WETH",
                               !.price_current = pool.price, !.pool_fee = POOL_FEE,
                               !.amount_token0 = call[p].amount_usdt * QUARTER,
                               !.amount_token1 =
                                   weth_equivalent(call[p].amount_usdt, pool.price)]
                ELSE [@ EXCEPT !.token0 = "WETH", !.token1 = "USDT",
                               !.price_current = pool.price, !.pool_fee = POOL_FEE,
                               !.amount_token0 =
                                   weth_equivalent(call[p].amount_usdt, pool.price),
                               !.amount_token1 = call[p].amount_usdt * QUARTER]]
          /\ pc' = [pc EXCEPT ![p] = "al_verify"]
          /\ UNCHANGED <<steps, ret>>
    /\ UNCHANGED <<chain, call, liquidity, nonce, tx, rq, reg, tk>>

\* line 484 with verify_balance, called with the addresses (USDT, WETH): the
\* two balances are read one after the other, lines 422 and 423, and the chain
\* can move between the two reads.  A decimals read that failed hands None to
\* get_token_balance, whose division raises after its balance read; a
\* balance read raises by itself
add_liquidity_verify(p) ==
    \/ /\ pc[p] = "al_verify"
       /\ \/ Raise(p, "TypeError")
          \/ Raise(p, "RPCError")
          \/ /\ al' = [al EXCEPT ![p].balance_token0 = balance["USDT"]]
             /\ pc' = [pc EXCEPT ![p] = "al_verify_token1"]
             /\ UNCHANGED <<steps, ret>>
       /\ UNCHANGED <<chain, call, liquidity, nonce, tx, rq, reg, tk>>
    \/ /\ pc[p] = "al_verify_token1"
       /\ \/ Raise(p, "TypeError")
          \/ Raise(p, "RPCError")
          \/ /\ al' = [al EXCEPT ![p].balance_token1 = balance["WETH"]]
             /\ IF verify_balance(al[p].amount_token1, al[p].amount_token0,
                                  al[p].balance_token0, balance["WETH"])
                THEN /\ pc' = [pc EXCEPT ![p] = "al_ticks"]
                     /\ UNCHANGED <<steps, ret>>
                ELSE /\ steps' = Returned(p, "verify_balance", "", [value |-> FALSE])
                     /\ ret' = [ret EXCEPT ![p] = [raised |-> "", value |-> None]]
                     /\ pc' = [pc EXCEPT ![p] = "done"]
       /\ UNCHANGED <<chain, call, liquidity, nonce, tx, rq, reg, tk>>

\* a test that lets a range of one tick pass
invalid_tick_range_strict(tick_lower, tick_upper) ==
    tick_lower > tick_upper

\* line 502
invalid_tick_range(tick_lower, tick_upper) ==
    tick_lower >= tick_upper

\* lines 489-503: the ticks are computed and a collapsed range raises
add_liquidity_ticks(p) ==
    /\ pc[p] = "al_ticks"
    /\ LET t == calculate_ticks(al[p].price_current, call[p].price_range,
                                Decimals(al[p].token0), Decimals(al[p].token1), call[p].fee)
       IN  IF t.raised # ""
           THEN Raise(p, t.raised)
           ELSE IF invalid_tick_range(t.tick_lower, t.tick_upper)
           THEN Raise(p, "ValueError")
           ELSE /\ al' = [al EXCEPT ![p].tick_lower = t.tick_lower,
                                    ![p].tick_upper = t.tick_upper,
                                    ![p].approving = 0]
                /\ pc' = [pc EXCEPT ![p] = "ap_allow"]
                /\ UNCHANGED <<steps, ret>>
    /\ UNCHANGED <<chain, call, liquidity, nonce, tx, rq, reg, tk>>

ApproveStep(p) == IF al[p].approving = 0 THEN "approve_token0" ELSE "approve_token1"
ApproveToken(p) == IF al[p].approving = 0 THEN al[p].token0 ELSE al[p].token1
ApproveAmount(p) == IF al[p].approving = 0 THEN al[p].amount_token0 ELSE al[p].amount_token1

(***************************************************************************)
(* approve_token, lines 298-339, called at lines 506 and 507.              *)
(***************************************************************************)
approve_token(p) ==
    \/ /\ pc[p] = "ap_allow"
       /\ \/ StepReturn(p, ApproveStep(p), "RPCError", None)
          \/ LET read == [al EXCEPT ![p].allowance[ApproveStep(p)] =
                                       allowance[ApproveToken(p)]]
             IN  IF allowance_sufficient(ApproveToken(p), ApproveAmount(p))
                 THEN StepReturnWith(p, ApproveStep(p), "", None, read)
                 ELSE /\ pc' = [pc EXCEPT ![p] = "ap_build"]
                      /\ al' = read
                      /\ UNCHANGED <<steps, ret>>
       /\ UNCHANGED <<chain, call, liquidity, nonce, tx, rq, reg, tk>>
    \/ /\ pc[p] = "ap_build"
       /\ \/ BuildOk(p, "ap_send") /\ UNCHANGED <<steps, ret, al>>
          \/ StepReturn(p, ApproveStep(p), "RPCError", None) /\ UNCHANGED nonce
       /\ UNCHANGED <<chain, call, liquidity, tx, rq, reg, tk>>
    \/ /\ pc[p] = "ap_send"
       /\ \/ /\ Submit(p, "approve", ApproveToken(p), "none", ApproveAmount(p), 0, TRUE)
             /\ pc' = [pc EXCEPT ![p] = "ap_wait"]
             /\ UNCHANGED <<steps, ret, al>>
          \/ /\ Submit(p, "approve", ApproveToken(p), "none", ApproveAmount(p), 0, FALSE)
             /\ StepReturn(p, ApproveStep(p), "SendRejected", None)
       /\ UNCHANGED <<chain_nonce, position, balance, allowance, pool, call, liquidity,
                      nonce, rq, reg, tk>>
    \/ /\ pc[p] = "ap_wait"
       /\ IF Mined(tx[p])
          THEN StepReturn(p, ApproveStep(p), "", Receipt(tx[p]))
          ELSE StepReturn(p, ApproveStep(p), "TimeExhausted", None)
       /\ UNCHANGED <<chain, call, liquidity, nonce, tx, rq, reg, tk>>

\* lines 512-544: the mint; nothing here is caught
add_liquidity_mint(p) ==
    \/ /\ pc[p] = "mint_build"
       /\ \/ BuildOk(p, "mint_send") /\ UNCHANGED <<steps, ret, al>>
          \/ Raise(p, "RPCError") /\ UNCHANGED nonce
       /\ UNCHANGED <<chain, call, liquidity, tx, rq, reg, tk>>
    \/ /\ pc[p] = "mint_send"
       /\ \/ /\ Submit(p, "mint", al[p].token0, al[p].token1,
                       al[p].amount_token0, al[p].amount_token1, TRUE)
             /\ pc' = [pc EXCEPT ![p] = "mint_wait"]
             /\ UNCHANGED <<steps, ret, al>>
          \/ /\ Submit(p, "mint", al[p].token0, al[p].token1,
                       al[p].amount_token0, al[p].amount_token1, FALSE)
             /\ Raise(p, "SendRejected")
       /\ UNCHANGED <<chain_nonce, position, balance, allowance, pool, call, liquidity,
                      nonce, rq, reg, tk>>
    \/ /\ pc[p] = "mint_wait"
       /\ IF Mined(tx[p])
          THEN StepReturn(p, "mint", "", Receipt(tx[p]))
          ELSE Raise(p, "TimeExhausted")
       /\ UNCHANGED <<chain, call, liquidity, nonce, tx, rq, reg, tk>>

(***************************************************************************)
(* The inputs: chain states and arguments the workflows are run on.        *)
(***************************************************************************)
Positions ==
    {Absent} \cup [exists : {TRUE}, liquidity : 0..MaxLiquidity, owed : BOOLEAN]

\* the adjusted pool price num/den with its logarithm: 1, 4 and 1/4
Prices == {[num |-> 1, den |-> 1, log |-> 0],
           [num |-> 4, den |-> 1, log |-> 13863637],
           [num |-> 1, den |-> 4, log |-> -13863637]}

Pools == [token0 : Tokens, price : Prices]

\* sixteenths: one and four tokens
Balances == {16, 64}
Allowances == {0, 64}
\* quarter tokens: one token, and one and a half
AmountsUsdt == {4, 6}

\* a fee that is no fee tier among the tiers
Fees == {500, 3000, 250}

\* the factors (0.90, 1.10), (0.95, 1.05) and (0.999, 1.001) by their logarithms
PriceRanges == {[lower |-> -1053658, upper |-> 953149],
                [lower |-> -512959, upper |-> 487926],
                [lower |-> -10006, upper |-> 9996]}

Calls ==
    {[NoCall EXCEPT !.op = "close_position"], [NoCall EXCEPT !.op = "collect_fees"]}
    \cup [op : {"add_liquidity"}, amount_usdt : AmountsUsdt, fee : Fees,
          price_range : PriceRanges]

Entry(op) ==
    CASE op = "close_position" -> "cp_fetch"
      [] op = "collect_fees" -> "col_build"
      [] op = "add_liquidity" -> "al_price"

\* a caller invokes one of the operations
Invoke(p) ==
    /\ pc[p] = "idle"
    /\ \E c \in Calls :
          /\ call' = [call EXCEPT ![p] = c]
          /\ pc' = [pc EXCEPT ![p] = Entry(c.op)]
    /\ UNCHANGED <<chain, liquidity, nonce, tx, al, steps, ret, rq, reg, tk>>

InitLocals ==
    /\ liquidity = [p \in Procs |-> 0]
    /\ nonce = [p \in Procs |-> 0]
    /\ tx = [p \in Procs |-> 0]
    /\ al = [p \in Procs |-> NoLocals]
    /\ steps = [p \in Procs |-> <<>>]
    /\ ret = [p \in Procs |-> NotReturned]

\* one invocation on any chain state
Init ==
    /\ chain_nonce = 0
    /\ position \in Positions
    /\ balance \in [Tokens -> Balances]
    /\ allowance \in [Tokens -> Allowances]
    /\ pool \in Pools
    /\ sent = <<>>
    /\ pc = [p \in Procs |-> IF p = "w1" THEN "idle" ELSE "off"]
    /\ call = [p \in Procs |-> NoCall]
    /\ InitLocals
    /\ rq = NoQuery
    /\ reg = NoRegistry
    /\ tk = NoTicks

Work(p) ==
    \/ close_position(p)
    \/ decrease_liquidity(p)
    \/ collect_fees(p)
    \/ burn_position(p)
    \/ add_liquidity_price(p)
    \/ add_liquidity_verify(p)
    \/ add_liquidity_ticks(p)
    \/ approve_token(p)
    \/ add_liquidity_mint(p)

Next == Mine \/ \E p \in Procs : Invoke(p) \/ Work(p)

Spec == Init /\ [][Next]_vars

(***************************************************************************)
(* Two invocations made at the same time for the same wallet, on a chain   *)
(* where each of them has every step to do.                                *)
(***************************************************************************)
ConcCalls(p) ==
    IF p = "w1"
    THEN {[NoCall EXCEPT !.op = "close_position"], [NoCall EXCEPT !.op = "collect_fees"]}
    ELSE {[NoCall EXCEPT !.op = "collect_fees"],
          [op |-> "add_liquidity", amount_usdt |-> 4, fee |-> 3000,
           price_range |-> [lower |-> -1053658, upper |-> 953149]]}

InitConc ==
    /\ chain_nonce = 0
    /\ position = [exists |-> TRUE, liquidity |-> 1, owed |-> FALSE]
    /\ balance = [k \in Tokens |-> 16]
    /\ allowance = [k \in Tokens |-> 0]
    /\ pool = [token0 |-> "USDT", price |-> [num |-> 1, den |-> 1, log |-> 0]]
    /\ sent = <<>>
    /\ \E c \in [Procs -> Calls] :
          /\ \A p \in Procs : c[p] \in ConcCalls(p)
          /\ call = c
          /\ pc = [p \in Procs |-> Entry(c[p].op)]
    /\ InitLocals
    /\ rq = NoQuery
    /\ reg = NoRegistry
    /\ tk = NoTicks

NextConc == Mine \/ \E p \in Procs : Work(p)

SpecConc == InitConc /\ [][NextConc]_vars

(***************************************************************************)
(* is_price_in_range, lines 145-167, asked about one position while the    *)
(* pool stands at one tick.                                                *)
(***************************************************************************)
Ticks == (-MaxTick)..MaxTick

\* the comparison leaving the upper bound out of the range
is_price_in_range_open(tick_lower, tick_upper, current_tick) ==
    tick_lower <= current_tick /\ current_tick < tick_upper

\* line 163
is_price_in_range(tick_lower, tick_upper, current_tick) ==
    tick_lower <= current_tick /\ current_tick <= tick_upper

\* the exceptions the handler of line 165 names
RangeCaught == {"ContractLogicError", "TransactionNotFound"}
ReadErrors == RangeCaught \cup {"ConnectionError"}

\* what one call of is_price_in_range can end as, lines 152-167: the comparison
\* when both reads succeed; False when a read raised one of the two exceptions
\* the handler names; the exception itself when a read raised any other one.
\* The handler's tuple is evaluated on self.web3, a Web3 instance, only when a
\* read has raised: where that instance has no `exceptions` attribute the
\* evaluation raises AttributeError in place of either outcome.
is_price_in_range_outcomes(tick_lower, tick_upper, current_tick) ==
    {[error |-> "",
      result |-> [raised |-> "",
                  value |-> is_price_in_range(tick_lower, tick_upper, current_tick)]]}
    \cup {[error |-> e, result |-> [raised |-> "", value |-> FALSE]] : e \in RangeCaught}
    \cup {[error |-> e, result |-> [raised |-> e, value |-> FALSE]] :
             e \in ReadErrors \ RangeCaught}
    \cup {[error |-> e, result |-> [raised |-> "AttributeError", value |-> FALSE]] :
             e \in ReadErrors}

range_check ==
    /\ rq.pc = "called"
    /\ \E o \in is_price_in_range_outcomes(rq.tick_lower, rq.tick_upper, rq.current_tick) :
          rq' = [rq EXCEPT !.pc = "done", !.error = o.error, !.result = o.result]
    /\ UNCHANGED <<chain, pc, call, liquidity, nonce, tx, al, steps, ret, reg, tk>>

InitRead ==
    /\ chain_nonce = 0
    /\ position = Absent
    /\ balance = [k \in Tokens |-> 0]
    /\ allowance = [k \in Tokens |-> 0]
    /\ pool = [token0 |-> "USDT", price |-> [num |-> 1, den |-> 1, log |-> 0]]
    /\ sent = <<>>
    /\ pc = [p \in Procs |-> "off"]
    /\ call = [p \in Procs |-> NoCall]
    /\ InitLocals
    /\ \E lo \in Ticks, hi \in Ticks, cur \in Ticks :
          /\ lo < hi
          /\ rq = [NoQuery EXCEPT !.pc = "called", !.tick_lower = lo, !.tick_upper = hi,
                                  !.current_tick = cur]
    /\ reg = NoRegistry
    /\ tk = NoTicks

NextRead == range_check

SpecRead == InitRead /\ [][NextRead]_vars

(***************************************************************************)
(* The position registry, lines 51-143: the wallet's positions are found   *)
(* in the Transfer log of the position manager, their details are read one *)
(* by one, and the positions are filtered by liquidity and by price range. *)
(* get_positions_in_range calls get_active_positions, which calls          *)
(* get_positions, which calls get_positions_ids: the model follows one     *)
(* call of get_positions_in_range and keeps what each of them returned.    *)
(***************************************************************************)
MaxLog == 3

Addresses == {"0x0", "wallet", "other"}
TokenIds == {1, 2}

\* the Transfer events the position manager can emit: a mint leaves 0x0, a
\* burn goes to 0x0
Events ==
    {e \in [from : Addresses, to : Addresses, tokenId : TokenIds] :
        e.from # "0x0" \/ e.to # "0x0"}

\* ownerOf(token_id) once the first n events of log have happened
OwnerAfter(log, n, token_id) ==
    LET on == {i \in 1..n : log[i].tokenId = token_id}
    IN  IF on = {} THEN "0x0"
        ELSE log[CHOOSE i \in on : \A j \in on : j <= i].to

\* a history the contract can produce: a token is sent by the one who owns it
Logs ==
    {log \in UNION {[1..n -> Events] : n \in 0..MaxLog} :
        \A i \in 1..Len(log) : log[i].from = OwnerAfter(log, i - 1, log[i].tokenId)}

RegLiquidities == {0, 1}
RegTicks == {-MaxTick, 0}

\* the manager's positions table under a history: a token that was never
\* minted or was burned has no entry
Tables(log) ==
    {t \in [TokenIds -> [exists : BOOLEAN, liquidity : RegLiquidities,
                         tick_lower : {-1}, tick_upper : {1}]] :
        \A id \in TokenIds :
            /\ t[id].exists = (OwnerAfter(log, Len(log), id) # "0x0")
            /\ ~t[id].exists => t[id].liquidity = 0}

\* a filter keeping only the events of the tokens the wallet holds now
get_logs_held(log) ==
    SelectSeq(log, LAMBDA e : e.to = "wallet"
                              /\ OwnerAfter(log, Len(log), e.tokenId) = "wallet")

\* lines 67-74: the events whose third topic, the recipient, is the wallet
get_logs(log) ==
    SelectSeq(log, LAMBDA e : e.to = "wallet")

\* lines 76-83: the tokenId of each log, appended in the order of the logs
position_ids(logs) ==
    [i \in 1..Len(logs) |-> logs[i].tokenId]

\* lines 89-99 for one token of the table: positions(id) reverts for a token
\* without an entry, and every exception is turned into None
position_details(token_id, rpc_ok) ==
    IF rpc_ok /\ reg.table[token_id].exists THEN reg.table[token_id] ELSE None

\* a test that every value passes
truthy_always(value) ==
    TRUE

\* line 110, `if position_details:`: None is false, a tuple of fields is true
truthy(value) ==
    value # None

\* a Python dict, kept as its entries in insertion order
DictKeys(d) == {d[n].key : n \in 1..Len(d)}

\* an assignment that adds an entry whether or not the key has one
DictAppend(d, key, value) ==
    Append(d, [key |-> key, value |-> value])

\* line 111, d[key] = value: the entry of the key is replaced where it is, a
\* new key is added at the end
DictSet(d, key, value) ==
    IF key \in DictKeys(d)
    THEN [n \in 1..Len(d) |-> IF d[n].key = key THEN [key |-> key, value |-> value] ELSE d[n]]
    ELSE Append(d, [key |-> key, value |-> value])

\* a test that takes a position without liquidity as active
is_active_any(details) ==
    details.liquidity >= 0

\* line 125: position[7] > 0
is_active(details) ==
    details.liquidity > 0

\* lines 56-87
get_positions_ids ==
    /\ reg.pc = "get_positions_ids"
    /\ \E rpc_ok \in BOOLEAN :
          reg' = [reg EXCEPT !.pc = "get_positions",
                             !.ids_error = ~rpc_ok,
                             !.ids = IF rpc_ok THEN position_ids(get_logs(reg.log)) ELSE <<>>,
                             !.i = 1]
    /\ UNCHANGED <<chain, pc, call, liquidity, nonce, tx, al, steps, ret, rq, tk>>

\* lines 107-116: one turn of the loop, or its end
get_positions ==
    /\ reg.pc = "get_positions"
    /\ \/ /\ reg.i <= Len(reg.ids)
          /\ \E rpc_ok \in BOOLEAN :
                LET token_id == reg.ids[reg.i]
                    details == position_details(token_id, rpc_ok)
                IN  reg' = [reg EXCEPT
                              !.i = @ + 1,
                              !.fetched = Append(@, [token_id |-> token_id,
                                                     details |-> details]),
                              !.positions = IF truthy(details)
                                            THEN DictSet(@, token_id, details)
                                            ELSE @]
       \/ /\ reg.i > Len(reg.ids)
          /\ reg' = [reg EXCEPT !.pc = "get_active_positions"]
    /\ UNCHANGED <<chain, pc, call, liquidity, nonce, tx, al, steps, ret, rq, tk>>

\* lines 124-130
get_active_positions ==
    /\ reg.pc = "get_active_positions"
    /\ reg' = [reg EXCEPT !.pc = "get_positions_in_range",
                          !.active = SelectSeq(reg.positions,
                                               LAMBDA e : is_active(e.value)),
                          !.j = 1]
    /\ UNCHANGED <<chain, pc, call, liquidity, nonce, tx, al, steps, ret, rq, tk>>

\* lines 138-143: one turn of the comprehension, which an exception leaving
\* is_price_in_range ends, or its end
get_positions_in_range ==
    /\ reg.pc = "get_positions_in_range"
    /\ \/ /\ reg.j <= Len(reg.active)
          /\ LET e == reg.active[reg.j]
             IN  \E o \in is_price_in_range_outcomes(e.value.tick_lower, e.value.tick_upper,
                                                     reg.current_tick) :
                    LET checked == Append(reg.checks, [token_id |-> e.key,
                                                       error |-> o.error,
                                                       result |-> o.result])
                    IN  reg' = IF o.result.raised # ""
                               THEN [reg EXCEPT !.pc = "done", !.checks = checked,
                                                !.raised = o.result.raised]
                               ELSE [reg EXCEPT !.j = @ + 1, !.checks = checked,
                                                !.in_range = IF o.result.value
                                                             THEN Append(@, e) ELSE @]
       \/ /\ reg.j > Len(reg.active)
          /\ reg' = [reg EXCEPT !.pc = "done", !.returned = TRUE]
    /\ UNCHANGED <<chain, pc, call, liquidity, nonce, tx, al, steps, ret, rq, tk>>

InitRegistry ==
    /\ chain_nonce = 0
    /\ position = Absent
    /\ balance = [k \in Tokens |-> 0]
    /\ allowance = [k \in Tokens |-> 0]
    /\ pool = [token0 |-> "USDT", price |-> [num |-> 1, den |-> 1, log |-> 0]]
    /\ sent = <<>>
    /\ pc = [p \in Procs |-> "off"]
    /\ call = [p \in Procs |-> NoCall]
    /\ InitLocals
    /\ rq = NoQuery
    /\ tk = NoTicks
    /\ \E log \in Logs, cur \in RegTicks :
          \E table \in Tables(log) :
             reg = [pc |-> "get_positions_ids", log |-> log, table |-> table,
                    current_tick |-> cur, ids_error |-> FALSE, ids |-> <<>>, i |-> 0,
                    fetched |-> <<>>, positions |-> <<>>, active |-> <<>>, j |-> 0,
                    checks |-> <<>>, in_range |-> <<>>, raised |-> "", returned |-> FALSE]

NextRegistry ==
    \/ get_positions_ids
    \/ get_positions
    \/ get_active_positions
    \/ get_positions_in_range

SpecRegistry == InitRegistry /\ [][NextRegistry]_vars

(***************************************************************************)
(* calculate_ticks of src/utils/utils.py, lines 47-64, called on its own:  *)
(* on a price of 1, with every pair of range factors of a grid around 1,   *)
(* every fee tier and one fee that is none, and tokens of equal and of     *)
(* unequal decimals.                                                       *)
(***************************************************************************)
MaxLogK == 70

\* the logarithms of the range factors, in thousandths of a tick: a grid of
\* step 1.7 ticks placed so that no factor is a whole power of 1.0001
LogSamples == {k * 1700 + 450 : k \in (-MaxLogK)..MaxLogK}

TickFees == {100, 500, 3000, 10000, 250}

DecimalPairs == {<<18, 18>>, <<USDT_DECIMALS, WETH_DECIMALS>>, <<WETH_DECIMALS, USDT_DECIMALS>>}

calculate_ticks_call ==
    /\ tk.pc = "called"
    /\ tk' = [tk EXCEPT !.pc = "done",
                        !.result = calculate_ticks(tk.price_current, tk.price_range,
                                                   tk.decimals_token0, tk.decimals_token1,
                                                   tk.fee)]
    /\ UNCHANGED <<chain, pc, call, liquidity, nonce, tx, al, steps, ret, rq, reg>>

InitTicks ==
    /\ chain_nonce = 0
    /\ position = Absent
    /\ balance = [k \in Tokens |-> 0]
    /\ allowance = [k \in Tokens |-> 0]
    /\ pool = [token0 |-> "USDT", price |-> [num |-> 1, den |-> 1, log |-> 0]]
    /\ sent = <<>>
    /\ pc = [p \in Procs |-> "off"]
    /\ call = [p \in Procs |-> NoCall]
    /\ InitLocals
    /\ rq = NoQuery
    /\ reg = NoRegistry
    /\ \E lower \in LogSamples, upper \in LogSamples, d \in DecimalPairs, fee \in TickFees :
          /\ lower < upper
          /\ tk = [pc |-> "called",
                   price_current |-> [num |-> 1, den |-> 1, log |-> 0],
                   price_range |-> [lower |-> lower, upper |-> upper],
                   decimals_token0 |-> d[1], decimals_token1 |-> d[2], fee |-> fee,
                   result |-> NotReturned]

NextTicks == calculate_ticks_call

SpecTicks == InitTicks /\ [][NextTicks]_vars

(***************************************************************************)
(* What the claims speak of.                                               *)
(***************************************************************************)
\* the transactions of kind `kind` that process p handed to send_raw_transaction
TxOf(p, kind) == {i \in 1..Len(sent) : sent[i].proc = p /\ sent[i].kind = kind}

TxBy(p) == {i \in 1..Len(sent) : sent[i].proc = p}

\* the node took the transaction into its pool
Accepted(i) == sent[i].status # "rejected"

StepsOf(p, step) == {i \in 1..Len(steps[p]) : steps[p][i].step = step}

StepNames(p) == [i \in 1..Len(steps[p]) |-> steps[p][i].step]

Closing(p) == call[p].op = "close_position"
Adding(p) == call[p].op = "add_liquidity"

\* close_position has read the position and found it
Fetched(p) ==
    /\ Closing(p)
    /\ pc[p] # "cp_fetch"
    /\ steps[p] # <<>>
    /\ steps[p][1].exc = ""

\* the amount of each token add_liquidity computed as required
Required(p, token) ==
    IF al[p].token0 = token THEN al[p].amount_token0 ELSE al[p].amount_token1

(***************************************************************************)
(* C1.  close_position sends a burn only after the decrease step it needed *)
(* (liquidity > 0) and the collect step have both succeeded: no burn is    *)
(* submitted when either of them returned a failure.                       *)
(***************************************************************************)
C1_BurnOnlyAfterZeroAndCollected ==
    \A p \in Procs :
        (Closing(p) /\ TxOf(p, "burn") # {}) =>
            /\ liquidity[p] > 0 =>
                  \E i \in StepsOf(p, "decrease") : steps[p][i].returned # None
            /\ \E i \in StepsOf(p, "collect") : steps[p][i].returned # None

(***************************************************************************)
(* C2.  add_liquidity sends no transaction at all once the balance it read *)
(* for either token is below the amount of that token it requires,         *)
(* whichever token the pool has as token0.                                 *)
(***************************************************************************)
C2_NoTxWhenBalanceShort ==
    \A p \in Procs :
        (/\ Adding(p)
         /\ pc[p] \notin {"al_price", "al_verify", "al_verify_token1"}
         /\ \/ al[p].balance_token0 < Required(p, "USDT")
            \/ al[p].balance_token1 < Required(p, "WETH"))
        => TxBy(p) = {}

(***************************************************************************)
(* C3.  In add_liquidity a failed approve step halts the workflow: after   *)
(* approve of token0 failed no approve of token1 is attempted, after       *)
(* either approve failed no mint is submitted, and the invocation does not *)
(* end with a receipt.                                                     *)
(***************************************************************************)
C3_ApproveFailureHalts ==
    \A p \in Procs :
        Adding(p) =>
            /\ (\E i \in StepsOf(p, "approve_token0") : steps[p][i].exc # "") =>
                  StepsOf(p, "approve_token1") = {}
            /\ (\E i \in 1..Len(steps[p]) :
                    /\ steps[p][i].step \in {"approve_token0", "approve_token1"}
                    /\ steps[p][i].exc # "") =>
                  /\ TxOf(p, "mint") = {}
                  /\ pc[p] = "done" => (ret[p].raised # "" \/ ret[p].value = None)

(***************************************************************************)
(* C4, as stated.  When close_position has run to its end on a position it *)
(* found, it has submitted a decreaseLiquidity transaction if and only if  *)
(* the liquidity it read is above zero.                                    *)
(***************************************************************************)
C4_DecreaseSubmittedIffPositive ==
    \A p \in Procs :
        (Fetched(p) /\ pc[p] = "done") =>
            (TxOf(p, "decreaseLiquidity") # {} <=> liquidity[p] > 0)

(***************************************************************************)
(* C4, amended.  A decreaseLiquidity transaction is submitted only if the  *)
(* liquidity read is above zero.  With liquidity 0 the decrease step is    *)
(* not entered and the steps run are collect, then burn, the burn being    *)
(* left out only when collect_fees raised instead of returning.  With      *)
(* liquidity above zero the decrease step is run once, first, and it       *)
(* submits its transaction unless building it raised.                      *)
(***************************************************************************)
C4_DecreaseOnlyIfPositive ==
    \A p \in Procs :
        /\ (Closing(p) /\ TxOf(p, "decreaseLiquidity") # {}) => liquidity[p] > 0
        /\ (Fetched(p) /\ liquidity[p] = 0) =>
              /\ StepsOf(p, "decrease") = {}
              /\ pc[p] \notin {"dec_build", "dec_send", "dec_wait"}
              /\ pc[p] = "done" =>
                    \/ StepNames(p) = <<"get_position_details", "collect", "burn">>
                    \/ /\ StepNames(p) = <<"get_position_details", "collect",
                                           "close_position">>
                       /\ steps[p][3].exc = "AttributeError"
        /\ (Fetched(p) /\ liquidity[p] > 0) =>
              \/ /\ pc[p] \in {"dec_build", "dec_send", "dec_wait"}
                 /\ StepsOf(p, "decrease") = {}
              \/ /\ StepsOf(p, "decrease") = {2}
                 /\ (TxOf(p, "decreaseLiquidity") # {} <=> steps[p][2].exc # "RPCError")

C4_Witness ==
    \E p \in Procs :
        /\ Fetched(p) /\ pc[p] = "done" /\ liquidity[p] = 0
        /\ TxOf(p, "collect") # {} /\ TxOf(p, "burn") # {}
        /\ TxOf(p, "decreaseLiquidity") = {}

(***************************************************************************)
(* C5.  When the position's details cannot be fetched, close_position ends *)
(* at once with the position-not-found error, returns None and has         *)
(* submitted no transaction.                                               *)
(***************************************************************************)
C5_AbsentPositionFails ==
    \A p \in Procs :
        (/\ Closing(p)
         /\ StepsOf(p, "get_position_details") # {}
         /\ steps[p][1].exc # "")
        => /\ pc[p] = "done"
           /\ StepNames(p) = <<"get_position_details", "close_position">>
           /\ steps[p][2].exc = "PositionNotFound"
           /\ ret[p] = [raised |-> "", value |-> None]
           /\ TxBy(p) = {}

C5_Witness ==
    \E p \in Procs :
        /\ Closing(p) /\ pc[p] = "done" /\ ~position.exists
        /\ StepsOf(p, "close_position") # {}
        /\ TxBy(p) = {}

(***************************************************************************)
(* C6.  No step is retried: one invocation runs each step at most once and *)
(* submits at most one decreaseLiquidity, one collect, one burn, one mint  *)
(* and one approve per token.                                              *)
(***************************************************************************)
C6_NoStepRetried ==
    \A p \in Procs :
        /\ \A kind \in {"decreaseLiquidity", "collect", "burn", "mint"} :
              Cardinality(TxOf(p, kind)) <= 1
        /\ \A token \in Tokens :
              Cardinality({i \in TxOf(p, "approve") : sent[i].token0 = token}) <= 1
        /\ \A step \in {"decrease", "collect", "burn", "approve_token0", "approve_token1",
                        "mint"} :
              Cardinality(StepsOf(p, step)) <= 1

C6_Witness ==
    \E p \in Procs :
        /\ Closing(p) /\ pc[p] = "done"
        /\ \E i \in StepsOf(p, "decrease") : steps[p][i].exc = "SendRejected"
        /\ Cardinality(TxOf(p, "decreaseLiquidity")) = 1
        /\ TxOf(p, "burn") # {}

(***************************************************************************)
(* C7.  In one invocation run alone the transactions are submitted in the  *)
(* order of the steps, and no two transactions that were sent carry the    *)
(* same nonce.                                                             *)
(***************************************************************************)
StepRank(t) ==
    CASE t.kind = "decreaseLiquidity" -> 1
      [] t.kind = "collect" -> 2
      [] t.kind = "burn" -> 3
      [] t.kind = "approve" -> IF t.token0 = al[t.proc].token0 THEN 4 ELSE 5
      [] t.kind = "mint" -> 6

C7_SequentialNoncesDistinct ==
    \A i, j \in 1..Len(sent) :
        (i < j /\ sent[i].proc = sent[j].proc) =>
            /\ StepRank(sent[i]) <= StepRank(sent[j])
            /\ (Accepted(i) /\ Accepted(j)) => sent[i].nonce # sent[j].nonce

(***************************************************************************)
(* C8.  Two invocations running at the same time for the same wallet never *)
(* have two transactions sent with the same nonce.                         *)
(***************************************************************************)
C8_ConcurrentNoncesDistinct ==
    \A i, j \in 1..Len(sent) :
        (sent[i].proc # sent[j].proc /\ Accepted(i) /\ Accepted(j)) =>
            sent[i].nonce # sent[j].nonce

(***************************************************************************)
(* C9.  A step whose receipt wait timed out reports to its caller          *)
(* something else than a step that failed outright reports.                *)
(***************************************************************************)
C9_TimeoutDistinguished ==
    \A p \in Procs :
        \A i, j \in 1..Len(steps[p]) :
            (/\ steps[p][i].exc = "TimeExhausted"
             /\ steps[p][j].exc \in {"RPCError", "SendRejected"})
            => steps[p][i].returned # steps[p][j].returned

(***************************************************************************)
(* C10.  When the pool reads succeed, is_price_in_range returns True       *)
(* exactly when tick_lower <= current tick <= tick_upper, both bounds      *)
(* included.                                                               *)
(***************************************************************************)
C10_InRangeIffBetween ==
    (rq.pc = "done" /\ rq.error = "") =>
        /\ rq.result.raised = ""
        /\ rq.result.value =
              (rq.tick_lower <= rq.current_tick /\ rq.current_tick <= rq.tick_upper)

C10_Witness ==
    /\ rq.pc = "done" /\ rq.error = ""
    /\ rq.current_tick = rq.tick_upper
    /\ rq.result.value = TRUE

(***************************************************************************)
(* What the claims on the registry speak of.                               *)
(***************************************************************************)
\* get_positions_ids has returned, and its log read did not fail
IdsRead == reg.pc \notin {"off", "get_positions_ids"} /\ ~reg.ids_error

\* get_positions has returned
PositionsReturned == reg.pc \in {"get_active_positions", "get_positions_in_range", "done"}

\* get_active_positions has returned
ActiveReturned == reg.pc \in {"get_positions_in_range", "done"}

\* the places of the Transfer events to the wallet in the log
ToWallet == {i \in 1..Len(reg.log) : reg.log[i].to = "wallet"}

\* the place in the log of the k-th Transfer event to the wallet
KthToWallet(k) == CHOOSE i \in ToWallet : Cardinality({j \in ToWallet : j <= i}) = k

\* the places where a sequence of entries or of ids holds the token
EntriesOf(d, token_id) == {n \in 1..Len(d) : d[n].key = token_id}
TimesIn(ids, token_id) == {n \in 1..Len(ids) : ids[n] = token_id}

\* the detail fetches of the token that returned its details
FetchedOk(token_id) ==
    {n \in 1..Len(reg.fetched) :
        reg.fetched[n].token_id = token_id /\ reg.fetched[n].details # None}

Entries(d) == {d[n] : n \in 1..Len(d)}

(***************************************************************************)
(* C11.  is_price_in_range fails closed: whenever a pool read of it fails, *)
(* it returns False, neither raising nor returning True, so that           *)
(* get_positions_in_range is not ended by one unreadable pool and reports  *)
(* no position whose range could not be determined.                        *)
(***************************************************************************)
C11_RangeCheckFailsClosed ==
    /\ reg.raised = ""
    /\ \A n \in 1..Len(reg.checks) :
          reg.checks[n].error # "" =>
              /\ reg.checks[n].result = [raised |-> "", value |-> FALSE]
              /\ reg.checks[n].token_id \notin DictKeys(reg.in_range)

(***************************************************************************)
(* C12.  The ids are not deduplicated, the map is: a tokenId with k        *)
(* Transfer events to the wallet in the log is returned k times by         *)
(* get_positions_ids, and get_positions holds one entry for it, no more,   *)
(* once its details were fetched.                                          *)
(***************************************************************************)
C12_IdsRepeatMapHoldsOne ==
    \A token_id \in TokenIds :
        /\ IdsRead =>
              Cardinality(TimesIn(reg.ids, token_id)) =
                 Cardinality({i \in ToWallet : reg.log[i].tokenId = token_id})
        /\ PositionsReturned =>
              Cardinality(EntriesOf(reg.positions, token_id)) =
                 IF FetchedOk(token_id) # {} THEN 1 ELSE 0

C12_Witness ==
    /\ PositionsReturned
    /\ \E token_id \in TokenIds :
          /\ Cardinality({i \in ToWallet : reg.log[i].tokenId = token_id}) = 2
          /\ Cardinality(TimesIn(reg.ids, token_id)) = 2
          /\ Cardinality(FetchedOk(token_id)) = 2
          /\ Cardinality(EntriesOf(reg.positions, token_id)) = 1

(***************************************************************************)
(* C13.  get_positions is a batch that fails softly: it fetches the        *)
(* details of every id it discovered and returns; an id whose fetch failed *)
(* has no entry, and every id whose fetch succeeded has its entry, holding *)
(* the details fetched.                                                    *)
(***************************************************************************)
C13_BatchSoftFails ==
    PositionsReturned =>
        /\ Len(reg.fetched) = Len(reg.ids)
        /\ \A n \in 1..Len(reg.ids) : reg.fetched[n].token_id = reg.ids[n]
        /\ \A token_id \in TokenIds :
              IF FetchedOk(token_id) # {}
              THEN \E n \in EntriesOf(reg.positions, token_id) :
                      reg.positions[n].value = reg.table[token_id]
              ELSE EntriesOf(reg.positions, token_id) = {}

C13_Witness ==
    /\ PositionsReturned
    /\ \E failed \in TokenIds, fetched \in TokenIds :
          /\ TimesIn(reg.ids, failed) # {}
          /\ FetchedOk(failed) = {}
          /\ \E n \in TimesIn(reg.ids, failed), m \in FetchedOk(fetched) : n < m
          /\ DictKeys(reg.positions) = {fetched}

(***************************************************************************)
(* C14.  get_active_positions returns exactly the entries of get_positions *)
(* whose liquidity is above 0, and get_positions_in_range returns only     *)
(* entries of get_active_positions: a position of liquidity 0 is reported  *)
(* neither as active nor as in range.                                      *)
(***************************************************************************)
C14_ActiveAndInRangeAreFilters ==
    ActiveReturned =>
        /\ \A e \in Entries(reg.positions) :
              (e \in Entries(reg.active)) = (e.value.liquidity > 0)
        /\ Entries(reg.active) \subseteq Entries(reg.positions)
        /\ Entries(reg.in_range) \subseteq Entries(reg.active)
        /\ \A e \in Entries(reg.active) \cup Entries(reg.in_range) : e.value.liquidity # 0

C14_Witness ==
    /\ reg.pc = "done" /\ reg.returned
    /\ \E e \in Entries(reg.positions) : e.value.liquidity = 0
    /\ Len(reg.active) = 1
    /\ reg.in_range = reg.active

(***************************************************************************)
(* C15.  get_positions_ids returns the tokenIds of exactly the Transfer    *)
(* events of the position manager whose recipient is the wallet, in the    *)
(* order of the log; it is a history of receipts, so that a token the      *)
(* wallet has since transferred away is still returned.                    *)
(***************************************************************************)
C15_IdsAreRecipientHistory ==
    IdsRead =>
        /\ Len(reg.ids) = Cardinality(ToWallet)
        /\ \A k \in 1..Len(reg.ids) : reg.ids[k] = reg.log[KthToWallet(k)].tokenId

C15_Witness ==
    /\ IdsRead
    /\ Len(reg.ids) = 2
    /\ \E k \in 1..Len(reg.ids) :
          OwnerAfter(reg.log, Len(reg.log), reg.ids[k]) = "other"

(***************************************************************************)
(* What the claims on calculate_ticks speak of.                            *)
(***************************************************************************)
\* calculate_ticks has returned a pair of ticks
TicksReturned == tk.pc = "done" /\ tk.result.raised = ""

\* the ticks of the two bounds before they are aligned, lines 54-55
RawLower == price_to_tick(tk.price_current.log + tk.price_range.lower,
                          tk.decimals_token0, tk.decimals_token1)
RawUpper == price_to_tick(tk.price_current.log + tk.price_range.upper,
                          tk.decimals_token0, tk.decimals_token1)

\* the spacing of each fee tier
SpacingOf(fee) ==
    CASE fee = 100 -> 1 [] fee = 500 -> 10 [] fee = 3000 -> 60 [] fee = 10000 -> 200

(***************************************************************************)
(* C16.  For each of the fee tiers 100, 500, 3000 and 10000 and every pair *)
(* of raw ticks, both ticks calculate_ticks returns are whole multiples of *)
(* the spacing of the tier: 1, 10, 60 and 200.                             *)
(***************************************************************************)
C16_TicksAreMultiplesOfSpacing ==
    tk.pc = "done" =>
        /\ (tk.fee \in {100, 500, 3000, 10000}) = (tk.result.raised = "")
        /\ tk.result.raised = "" =>
              /\ tk.result.tick_lower % SpacingOf(tk.fee) = 0
              /\ tk.result.tick_upper % SpacingOf(tk.fee) = 0

C16_Witness ==
    /\ TicksReturned
    /\ tk.fee = 10000
    /\ RawLower % 200 # 0 /\ RawUpper % 200 # 0
    /\ tk.result.tick_lower = -200 /\ tk.result.tick_upper = 0

(***************************************************************************)
(* C17.  The alignment rounds toward minus infinity: for a raw tick t and  *)
(* a spacing s the aligned tick a has a <= t < a + s, on both bounds; with *)
(* fee 3000, 119 becomes 60 and -1 becomes -60.                            *)
(***************************************************************************)
C17_AlignmentRoundsDown ==
    TicksReturned =>
        LET s == SpacingOf(tk.fee)
        IN  /\ tk.result.tick_lower <= RawLower /\ RawLower < tk.result.tick_lower + s
            /\ tk.result.tick_upper <= RawUpper /\ RawUpper < tk.result.tick_upper + s

C17_Witness ==
    /\ TicksReturned
    /\ tk.fee = 3000
    /\ RawLower = -1 /\ tk.result.tick_lower = -60
    /\ RawUpper = 119 /\ tk.result.tick_upper = 60

(***************************************************************************)
(* C18.  calculate_ticks never hands back a collapsed range: for factors   *)
(* lower < upper it returns tick_lower < tick_upper or fails with          *)
(* InvalidRange.                                                           *)
(***************************************************************************)
C18_NeverReturnsCollapsed ==
    (tk.pc = "done" /\ tk.fee \in {100, 500, 3000, 10000}
        /\ tk.price_range.lower < tk.price_range.upper) =>
        \/ tk.result.raised = "InvalidRange"
        \/ tk.result.raised = "" /\ tk.result.tick_lower < tk.result.tick_upper

(***************************************************************************)
(* What the claims on add_liquidity's range and approvals speak of.        *)
(***************************************************************************)
\* add_liquidity has read the pool, and the ticks calculate_ticks returns for
\* its price and the range asked for are collapsed
Collapsed(p) ==
    /\ Adding(p)
    /\ al[p].token0 # "none"
    /\ LET t == calculate_ticks(al[p].price_current, call[p].price_range,
                                Decimals(al[p].token0), Decimals(al[p].token1), call[p].fee)
       IN  t.raised = "" /\ t.tick_lower >= t.tick_upper

ApproveSteps == {"approve_token0", "approve_token1"}

\* the token and the amount of each of the two calls of approve_token
TokenOf(p, step) == IF step = "approve_token0" THEN al[p].token0 ELSE al[p].token1
AmountOf(p, step) ==
    IF step = "approve_token0" THEN al[p].amount_token0 ELSE al[p].amount_token1

\* the approve transactions of the call that process p handed over
ApproveTx(p, step) == {i \in TxOf(p, "approve") : sent[i].token0 = TokenOf(p, step)}

\* the allowance the call read at line 309, -1 while it has read none
Seen(p, step) == al[p].allowance[step]

(***************************************************************************)
(* C19.  add_liquidity rejects collapsed tick bounds before any            *)
(* transaction: with tick_lower >= tick_upper it raises, no approve_token  *)
(* is called and neither an approve nor a mint transaction is submitted.   *)
(***************************************************************************)
C19_CollapsedRangeNoTx ==
    \A p \in Procs :
        Collapsed(p) =>
            /\ TxBy(p) = {}
            /\ \A step \in ApproveSteps : StepsOf(p, step) = {} /\ Seen(p, step) = -1
            /\ pc[p] \in {"al_verify", "al_verify_token1", "al_ticks", "done"}
            /\ pc[p] = "done" =>
                  \/ ret[p].raised = "ValueError"
                  \/ ret[p].raised \in {"RPCError", "TypeError"}
                  \/ StepsOf(p, "verify_balance") # {}

C19_Witness ==
    \E p \in Procs :
        /\ Collapsed(p)
        /\ pc[p] = "done" /\ ret[p].raised = "ValueError"
        /\ \A k \in Tokens : allowance[k] = 0
        /\ TxBy(p) = {}

(***************************************************************************)
(* C20, as stated.  When a call of approve_token that read the allowance   *)
(* has ended, it has submitted an approve transaction if and only if the   *)
(* allowance it read is below the amount required.                         *)
(***************************************************************************)
C20_ApproveSubmittedIffBelow ==
    \A p \in Procs : \A step \in ApproveSteps :
        (Adding(p) /\ StepsOf(p, step) # {} /\ Seen(p, step) >= 0) =>
            (ApproveTx(p, step) # {} <=> Seen(p, step) < AmountOf(p, step))

(***************************************************************************)
(* C20, amended.  approve_token submits an approve transaction only if the *)
(* allowance it read is below the amount required; with an allowance at or *)
(* above the amount it submits none and returns; with an allowance below   *)
(* it, it submits one unless building it raised.  Each of the two calls of *)
(* add_liquidity decides on the allowance of its own token.                *)
(***************************************************************************)
C20_ApproveOnlyIfBelow ==
    \A p \in Procs : \A step \in ApproveSteps :
        Adding(p) =>
            /\ ApproveTx(p, step) # {} =>
                  Seen(p, step) >= 0 /\ Seen(p, step) < AmountOf(p, step)
            /\ Seen(p, step) >= AmountOf(p, step) =>
                  /\ ApproveTx(p, step) = {}
                  /\ \E i \in StepsOf(p, step) :
                        steps[p][i].exc = "" /\ steps[p][i].returned = None
            /\ (Seen(p, step) >= 0 /\ Seen(p, step) < AmountOf(p, step)) =>
                  \A i \in StepsOf(p, step) :
                      ApproveTx(p, step) # {} <=> steps[p][i].exc # "RPCError"

C20_Witness ==
    \E p \in Procs :
        /\ Adding(p)
        /\ \A step \in ApproveSteps : StepsOf(p, step) # {}
        /\ Seen(p, "approve_token0") >= AmountOf(p, "approve_token0")
        /\ Seen(p, "approve_token1") >= 0
        /\ Seen(p, "approve_token1") < AmountOf(p, "approve_token1")
        /\ ApproveTx(p, "approve_token0") = {}
        /\ ApproveTx(p, "approve_token1") # {}

(***************************************************************************)
(* C21.  The balance check of add_liquidity compares the amount required   *)
(* of each token with the balance of that same token, whichever token the  *)
(* pool has as token0: it passes exactly when the USDT balance covers the  *)
(* USDT amount and the WETH balance covers the WETH amount.                *)
(***************************************************************************)
\* verify_balance has returned to add_liquidity
VerifyReturned(p) ==
    /\ Adding(p)
    /\ al[p].token0 # "none"
    /\ pc[p] \notin {"al_verify", "al_verify_token1"}
    /\ ~(pc[p] = "done" /\ steps[p] = <<>> /\ ret[p].raised \in {"TypeError", "RPCError"})

C21_BalanceComparedWithOwnAmount ==
    \A p \in Procs :
        VerifyReturned(p) =>
            (StepsOf(p, "verify_balance") = {} <=>
                /\ al[p].balance_token0 >= Required(p, "USDT")
                /\ al[p].balance_token1 >= Required(p, "WETH"))

(***************************************************************************)
(* C22.  A read of the chain that fails (a transport failure or a revert)  *)
(* ends with an error for its caller: no read hands back a default value,  *)
(* such as None, in place of the error.                                    *)
(***************************************************************************)
C22_FailedReadReturnsNoDefault ==
    \A p \in Procs :
        \A i \in StepsOf(p, "get_position_details") :
            steps[p][i].exc # "" => steps[p][i].returned # None

(***************************************************************************)
(* C23.  price_to_tick returns the floor of the logarithm to base 1.0001   *)
(* of the decimal-adjusted price, the greatest integer not above it, also  *)
(* for an adjusted price below 1, whose logarithm is negative.             *)
(***************************************************************************)
\* the logarithm of the adjusted price of a bound, in thousandths
\* (the whole thousandths below it: the floor of the two is the same tick)
AdjustedLog(range_log) ==
    tk.price_current.log + range_log
        + decimal_log(tk.decimals_token1 - tk.decimals_token0).whole

C23_PriceToTickIsFloor ==
    tk.pc = "done" =>
        /\ RawLower = AdjustedLog(tk.price_range.lower) \div LogScale
        /\ RawUpper = AdjustedLog(tk.price_range.upper) \div LogScale

(***************************************************************************)
(* C24.  For a fee outside {100, 500, 3000, 10000} the tick alignment      *)
(* fails with the error of an unknown fee tier and returns no ticks, and   *)
(* add_liquidity called with such a fee ends before any approve or mint    *)
(* transaction is sent.                                                    *)
(***************************************************************************)
UnknownFees == {0, 250, 3001, 9999}

C24_UnknownFeeEndsBeforeTx ==
    \A p \in Procs :
        (Adding(p) /\ call[p].fee \notin {100, 500, 3000, 10000}) =>
            /\ TxBy(p) = {}
            /\ \A step \in ApproveSteps : StepsOf(p, step) = {} /\ Seen(p, step) = -1
            /\ pc[p] \in {"al_price", "al_verify", "al_verify_token1", "al_ticks", "done"}
            /\ al[p].tick_lower = 0 /\ al[p].tick_upper = 0
            /\ al[p].token0 # "none" =>
                  \A fee \in UnknownFees \cup {call[p].fee} :
                      calculate_ticks(al[p].price_current, call[p].price_range,
                                      Decimals(al[p].token0), Decimals(al[p].token1),
                                      fee).raised = "KeyError"
            /\ pc[p] = "done" =>
                  \/ ret[p].raised = "KeyError"
                  \/ ret[p].raised \in {"RPCError", "TypeError"}
                  \/ StepsOf(p, "verify_balance") # {}

C24_Witness ==
    \E p \in Procs :
        /\ Adding(p) /\ call[p].fee = 250
        /\ pc[p] = "done" /\ ret[p].raised = "KeyError"
        /\ \A k \in Tokens : allowance[k] = 0
        /\ TxBy(p) = {}

(***************************************************************************)
(* C25.  When close_position has read a liquidity L > 0, the one           *)
(* decreaseLiquidity transaction it submits removes exactly L: once it has *)
(* succeeded, nothing else having changed the position, the position's     *)
(* liquidity is 0, and collect and burn are submitted after it.            *)
(***************************************************************************)
C25_DecreaseRemovesAllRead ==
    \A p \in Procs :
        Closing(p) =>
            /\ Cardinality(TxOf(p, "decreaseLiquidity")) <= 1
            /\ \A i \in TxOf(p, "decreaseLiquidity") :
                  /\ liquidity[p] > 0
                  /\ sent[i].a0 = liquidity[p]
                  /\ sent[i].status = "mined" => position.liquidity = 0
                  /\ \A j \in TxOf(p, "collect") \cup TxOf(p, "burn") : i < j

C25_Witness ==
    \E p \in Procs :
        /\ Closing(p) /\ liquidity[p] = MaxLiquidity
        /\ \E i \in TxOf(p, "decreaseLiquidity") :
              sent[i].a0 = MaxLiquidity /\ sent[i].status = "mined"
        /\ position.exists /\ position.liquidity = 0
        /\ TxOf(p, "collect") # {}

(***************************************************************************)
(* C26.  A step returns a receipt only for a transaction that was executed *)
(* successfully on the chain: the receipt the decrease, collect, burn,     *)
(* approve or mint step returns, and the one close_position returns, is    *)
(* that of a transaction mined without reverting.                          *)
(***************************************************************************)
IsReceipt(value) == "status" \in DOMAIN value

C26_ReceiptOnlyForSuccess ==
    \A p \in Procs :
        /\ \A i \in 1..Len(steps[p]) :
              IsReceipt(steps[p][i].returned) =>
                  /\ steps[p][i].returned.status = 1
                  /\ sent[steps[p][i].returned.tx].status = "mined"
        /\ (pc[p] = "done" /\ IsReceipt(ret[p].value)) => ret[p].value.status = 1

(***************************************************************************)
(* C27.  In add_liquidity the pool read for the price and the token order  *)
(* is the pool of the fee tier of the position minted: for every fee       *)
(* argument that is a fee tier, the fee given to getPool equals the fee of *)
(* the mint parameters and the fee the tick spacing is taken for.          *)
(***************************************************************************)
\* line 515, 'fee': fee, and line 497, the last argument of calculate_ticks
MintFee(p) == call[p].fee
SpacingFee(p) == call[p].fee

C27_PoolFeeIsMintFee ==
    \A p \in Procs :
        (Adding(p) /\ al[p].token0 # "none" /\ call[p].fee \in DOMAIN fee_tier_tick_spacing) =>
            /\ al[p].pool_fee = MintFee(p)
            /\ al[p].pool_fee = SpacingFee(p)

(***************************************************************************)
(* C28.  close_position never lets an exception reach its caller: when a   *)
(* step of it failed (the position fetch, the decrease, the collect or the *)
(* burn) the invocation ends and returns None, and it returns a receipt    *)
(* only when the burn step returned that receipt.                          *)
(***************************************************************************)
C28_CloseFailureReturnsNone ==
    \A p \in Procs :
        (Closing(p) /\ pc[p] = "done") =>
            /\ ret[p].raised = ""
            /\ (\E i \in 1..Len(steps[p]) : steps[p][i].exc # "") => ret[p].value = None
            /\ IsReceipt(ret[p].value) =>
                  \E i \in StepsOf(p, "burn") : steps[p][i].returned = ret[p].value

====
